---- MODULE Spec2Model ----
(***************************************************************************)
(* Model of include/swift/SIL/SILLocation.h: the SILLocation value type,   *)
(* its eight kind-specific views, the flag setters, the narrowing queries  *)
(* and ImplicitReturnLocation::getImplicitReturnLoc.                       *)
(*                                                                         *)
(* Conventions.                                                            *)
(*  - assert(...) is modelled as enabled: a failed assertion is a fatal    *)
(*    failure that ends the run (aborted = TRUE, no further step).         *)
(*  - AST nodes handed to constructors are non-null pointers into a fixed  *)
(*    AST (NodeClass).                                                     *)
(*  - llvm::PointerUnion4 and llvm::isa/dyn_cast_or_null are library code; *)
(*    they are modelled by their documented behaviour: a default           *)
(*    constructed union holds a null pointer of its FIRST member type, and *)
(*    isa<> asserts on a null pointer.                                     *)
(***************************************************************************)
EXTENDS Integers, Sequences, FiniteSets, TLC

VARIABLES loc, op, arg, param, ret, aborted, a, b, c, cmp, nops

vars == <<loc, op, arg, param, ret, aborted, a, b, c, cmp, nops>>

(***************************************************************************)
(* Bounds                                                                  *)
(***************************************************************************)
\* number of distinct valid raw textual positions (SourceLoc values)
MaxLoc == 2
\* number of operations performed on the three registers of SpecEq
MaxOps == 3

(***************************************************************************)
(* enum LocationKind                                                       *)
(***************************************************************************)
NoneKind == 0
RegularKind == 1
ReturnKind == 2
ImplicitReturnKind == 3
InlinedKind == 4
MandatoryInlinedKind == 5
CleanupKind == 6
ArtificialUnreachableKind == 7
SILFileKind == 8

LocationKind == NoneKind .. SILFileKind

(***************************************************************************)
(* the anonymous enum of KindData's layout                                 *)
(***************************************************************************)
BaseBits == 4
BaseMask == 15
AutoGeneratedBit == 5
PointsToStartBit == 6
PointsToEndBit == 7
IsInTopLevel == 8
IsInPrologue == 9

(***************************************************************************)
(* unsigned arithmetic: |, &, << (no value here exceeds 10 bits, so the    *)
(* 32-bit width of `unsigned` never truncates)                             *)
(***************************************************************************)
RECURSIVE BitOr(_, _)
BitOr(x, y) ==
  IF x = 0 THEN y
  ELSE IF y = 0 THEN x
  ELSE (IF x % 2 = 1 \/ y % 2 = 1 THEN 1 ELSE 0) + 2 * BitOr(x \div 2, y \div 2)

RECURSIVE BitAnd(_, _)
BitAnd(x, y) ==
  IF x = 0 \/ y = 0 THEN 0
  ELSE (IF x % 2 = 1 /\ y % 2 = 1 THEN 1 ELSE 0) + 2 * BitAnd(x \div 2, y \div 2)

Shl(x, n) == x * 2 ^ n

(***************************************************************************)
(* The AST the tags point into (swift/AST/{Decl,Expr,Stmt}.h).  Node ids   *)
(* are the addresses; 0 is the null pointer.                               *)
(***************************************************************************)
NodeClass ==
  [n \in 1 .. 9 |->
     CASE n = 1 -> "ReturnStmt"
       [] n = 2 -> "BraceStmt"
       [] n = 3 -> "ClosureExpr"
       [] n = 4 -> "CallExpr"
       [] n = 5 -> "CallExpr"
       [] n = 6 -> "FuncDecl"
       [] n = 7 -> "PatternBindingDecl"
       [] n = 8 -> "ImportDecl"
       [] n = 9 -> "NamedPattern"]

Nodes == DOMAIN NodeClass

\* the classes a node of class cls is an instance of (classof)
Supers(cls) ==
  CASE cls = "ReturnStmt"         -> {"ReturnStmt", "Stmt"}
    [] cls = "BraceStmt"          -> {"BraceStmt", "Stmt"}
    [] cls = "ClosureExpr"        -> {"AbstractClosureExpr", "Expr"}
    [] cls = "CallExpr"           -> {"Expr"}
    [] cls = "FuncDecl"           -> {"AbstractFunctionDecl", "ValueDecl", "Decl"}
    [] cls = "PatternBindingDecl" -> {"PatternBindingDecl", "Decl"}
    [] cls = "ImportDecl"         -> {"Decl"}
    [] cls = "NamedPattern"       -> {"Pattern"}

\* the node categories T the templates are instantiated with
NodeTypes ==
  {"Stmt", "ReturnStmt", "BraceStmt", "Expr", "AbstractClosureExpr",
   "Decl", "ValueDecl", "AbstractFunctionDecl", "PatternBindingDecl", "Pattern"}

Families == {"Stmt", "Expr", "Decl", "Pattern"}

\* SILLocation::base_type<T>::type
base_type(T) ==
  CASE T \in {"Stmt", "ReturnStmt", "BraceStmt"} -> "Stmt"
    [] T \in {"Expr", "AbstractClosureExpr"} -> "Expr"
    [] T \in {"Decl", "ValueDecl", "AbstractFunctionDecl", "PatternBindingDecl"} -> "Decl"
    [] T = "Pattern" -> "Pattern"

NodesOf(T) == {n \in Nodes : T \in Supers(NodeClass[n])}

(***************************************************************************)
(* llvm::PointerUnion4<Stmt*, Expr*, Decl*, Pattern*>: a discriminator and *)
(* a pointer.  The default-constructed union has discriminator 0, the      *)
(* first member type, Stmt pointer, and a null pointer.                     *)
(***************************************************************************)
PU_default == [tag |-> "Stmt", ptr |-> 0]
PU_of(n) == [tag |-> base_type(CHOOSE T \in Families : T \in Supers(NodeClass[n])), ptr |-> n]
PU_isNull(N) == N.ptr = 0
PU_is(N, F) == N.tag = F
\* get<F>() asserts is<F>()
PU_get(N, F) == IF PU_is(N, F) THEN [fatal |-> FALSE, val |-> N.ptr]
                ELSE [fatal |-> TRUE, val |-> 0]
PU_dyn_cast(N, F) == IF PU_is(N, F) THEN N.ptr ELSE 0
PU_getOpaqueValue(N) == <<N.tag, N.ptr>>

ASTNodeTy == {PU_default} \cup {PU_of(n) : n \in Nodes}

\* llvm::isa<T>(p): asserts p is non-null
isa(T, p) == IF p = 0 THEN [fatal |-> TRUE, val |-> FALSE]
             ELSE [fatal |-> FALSE, val |-> T \in Supers(NodeClass[p])]
\* llvm::dyn_cast_or_null<T>(p)
dyn_cast_or_null(T, p) == IF p = 0 THEN 0
                          ELSE IF T \in Supers(NodeClass[p]) THEN p ELSE 0

(***************************************************************************)
(* SourceLoc: 0 is the invalid (default constructed) position              *)
(***************************************************************************)
SourceLocs == 0 .. MaxLoc
SourceLoc_isInvalid(s) == s = 0

(***************************************************************************)
(* SILLocation                                                             *)
(***************************************************************************)
Tag(N, s, k) == [ASTNode |-> N, SILFileSourceLoc |-> s, KindData |-> k]

\* SILLocation(LocationKind K)
SILLocation_K(K) == Tag(PU_default, 0, K)
\* the node constructor also recording a raw position for the node
SILLocation_NK_withLoc(n, K) == Tag(PU_of(n), 1, K)
\* SILLocation(Stmt*/Expr*/Decl*/Pattern*, LocationKind K)
SILLocation_NK(n, K) == Tag(PU_of(n), 0, K)
\* SILLocation(Stmt*/Expr*/Decl*/Pattern*)
SILLocation_N(n) == Tag(PU_of(n), 0, RegularKind)
\* SILLocation(LocationKind K, unsigned Flags)
SILLocation_KF(K, F) == Tag(PU_default, 0, BitOr(K, F))
\* SILLocation(Stmt*/Expr*/Decl*/Pattern*, LocationKind K, unsigned Flags)
SILLocation_NKF(n, K, F) == Tag(PU_of(n), 0, BitOr(K, F))

\* setKind written as a plain assignment of the kind: the flag bits are lost
setKind_assign(L, K) == [L EXCEPT !.KindData = BitAnd(K, BaseMask)]
setKind(L, K) == [L EXCEPT !.KindData = BitOr(L.KindData, BitAnd(K, BaseMask))]
\* KindData & ~BaseMask
getSpecialFlags(L) == L.KindData - BitAnd(L.KindData, BaseMask)

isNull(L) == PU_isNull(L.ASTNode) /\ SourceLoc_isInvalid(L.SILFileSourceLoc)
hasASTLocation(L) == ~PU_isNull(L.ASTNode)

markAutoGenerated(L) == [L EXCEPT !.KindData = BitOr(L.KindData, Shl(1, AutoGeneratedBit))]
\* pointToStart without the shift: ORs the bit number into KindData
pointToStart_noShift(L) == [L EXCEPT !.KindData = BitOr(L.KindData, PointsToStartBit)]
pointToStart(L) == [L EXCEPT !.KindData = BitOr(L.KindData, Shl(1, PointsToStartBit))]
pointToEnd(L) == [L EXCEPT !.KindData = BitOr(L.KindData, Shl(1, PointsToEndBit))]
markAsInTopLevel(L) == [L EXCEPT !.KindData = BitOr(L.KindData, Shl(1, IsInTopLevel))]
markAsPrologue(L) == [L EXCEPT !.KindData = BitOr(L.KindData, Shl(1, IsInPrologue))]

isAutoGenerated(L) == BitAnd(L.KindData, Shl(1, AutoGeneratedBit)) # 0
alwaysPointsToStart(L) == BitAnd(L.KindData, Shl(1, PointsToStartBit)) # 0
alwaysPointsToEnd(L) == BitAnd(L.KindData, Shl(1, PointsToEndBit)) # 0
isInTopLevel(L) == BitAnd(L.KindData, Shl(1, IsInTopLevel)) # 0
isInPrologue(L) == BitAnd(L.KindData, Shl(1, IsInPrologue)) # 0

getKind(L) == BitAnd(L.KindData, BaseMask)

\* getNodeAs<T>(Node)
getNodeAs(T, N) == dyn_cast_or_null(T, PU_dyn_cast(N, base_type(T)))

\* isNode<T>(Node), called with Node = ASTNode
isNode(T, N) ==
  IF PU_is(N, base_type(T))
  THEN LET g == PU_get(N, base_type(T))
       IN IF g.fatal THEN [fatal |-> TRUE, val |-> FALSE] ELSE isa(T, g.val)
  ELSE [fatal |-> FALSE, val |-> FALSE]

getAsASTNode(T, L) == getNodeAs(T, L.ASTNode)
isASTNode(T, L) == isNode(T, L.ASTNode)

\* operator== comparing the kind instead of all of KindData
Equals_kindOnly(L, R) ==
  /\ getKind(L) = getKind(R)
  /\ PU_getOpaqueValue(L.ASTNode) = PU_getOpaqueValue(R.ASTNode)
  /\ L.SILFileSourceLoc = R.SILFileSourceLoc

\* operator==
Equals(L, R) ==
  /\ L.KindData = R.KindData
  /\ PU_getOpaqueValue(L.ASTNode) = PU_getOpaqueValue(R.ASTNode)
  /\ L.SILFileSourceLoc = R.SILFileSourceLoc


(***************************************************************************)
(* The eight views: constructors, factories and isKind                     *)
(***************************************************************************)
Views ==
  {"RegularLocation", "ReturnLocation", "ImplicitReturnLocation",
   "InlinedLocation", "MandatoryInlinedLocation", "CleanupLocation",
   "ArtificialUnreachableLocation", "SILFileLocation"}

\* the kind each view is declared for
ViewKind(V) ==
  CASE V = "RegularLocation" -> RegularKind
    [] V = "ReturnLocation" -> ReturnKind
    [] V = "ImplicitReturnLocation" -> ImplicitReturnKind
    [] V = "InlinedLocation" -> InlinedKind
    [] V = "MandatoryInlinedLocation" -> MandatoryInlinedKind
    [] V = "CleanupLocation" -> CleanupKind
    [] V = "ArtificialUnreachableLocation" -> ArtificialUnreachableKind
    [] V = "SILFileLocation" -> SILFileKind

\* RegularLocation
RegularLocation_N(n) == SILLocation_NK(n, RegularKind)
RegularLocation_default == SILLocation_K(RegularKind)
RegularLocation_isKind(L) == getKind(L) = RegularKind
getModuleLocation == markAsInTopLevel(RegularLocation_default)
getAutoGeneratedLocation == markAutoGenerated(RegularLocation_default)

\* ReturnLocation(ReturnStmt*), ReturnLocation(BraceStmt*)
ReturnLocation_Args == NodesOf("ReturnStmt") \cup NodesOf("BraceStmt")
ReturnLocation_N(n) == SILLocation_NK(n, ReturnKind)
ReturnLocation_default == SILLocation_K(ReturnKind)
ReturnLocation_isKind(L) == getKind(L) = ReturnKind

\* ImplicitReturnLocation(AbstractClosureExpr*), (ReturnStmt*), (AbstractFunctionDecl*)
ImplicitReturnLocation_Args ==
  NodesOf("AbstractClosureExpr") \cup NodesOf("ReturnStmt") \cup NodesOf("AbstractFunctionDecl")
ImplicitReturnLocation_N(n) == SILLocation_NK(n, ImplicitReturnKind)
ImplicitReturnLocation_default == SILLocation_K(ImplicitReturnKind)
ImplicitReturnLocation_isKind(L) == getKind(L) = ImplicitReturnKind

\* getImplicitReturnLoc whose last operand tests isInTopLevel() only
getImplicitReturnLoc_noNullTest(L) ==
  LET e == isASTNode("Expr", L)
      v == isASTNode("ValueDecl", L)
      p == isASTNode("PatternBindingDecl", L)
      probeFatal == \/ e.fatal
                    \/ (~e.val /\ v.fatal)
                    \/ (~e.val /\ ~v.val /\ p.fatal)
      cond == e.val \/ v.val \/ p.val \/ isInTopLevel(L)
  IN IF probeFatal \/ ~cond
     THEN [fatal |-> TRUE, val |-> L]
     ELSE [fatal |-> FALSE, val |-> setKind(L, ImplicitReturnKind)]

\* ImplicitReturnLocation::getImplicitReturnLoc(SILLocation L); the
\* operands of || are evaluated left to right, a fatal probe ends the call
getImplicitReturnLoc(L) ==
  LET e == isASTNode("Expr", L)
      v == isASTNode("ValueDecl", L)
      p == isASTNode("PatternBindingDecl", L)
      probeFatal == \/ e.fatal
                    \/ (~e.val /\ v.fatal)
                    \/ (~e.val /\ ~v.val /\ p.fatal)
      cond == e.val \/ v.val \/ p.val \/ (isNull(L) /\ isInTopLevel(L))
  IN IF probeFatal \/ ~cond
     THEN [fatal |-> TRUE, val |-> L]
     ELSE [fatal |-> FALSE, val |-> setKind(L, ImplicitReturnKind)]

\* InlinedLocation
InlinedLocation_N(n) == SILLocation_NK(n, InlinedKind)
InlinedLocation_S(s) == [SILLocation_K(InlinedKind) EXCEPT !.SILFileSourceLoc = s]
InlinedLocation_default == SILLocation_K(InlinedKind)
InlinedLocation_isKind(L) == getKind(L) = InlinedKind
\* the private InlinedLocation(Expr*/Stmt*/Pattern*/Decl*, unsigned F)
InlinedLocation_NF(n, F) == SILLocation_NKF(n, InlinedKind, F)
\* the private InlinedLocation(SourceLoc L, unsigned F)
InlinedLocation_SF(s, F) == [SILLocation_KF(InlinedKind, F) EXCEPT !.SILFileSourceLoc = s]

\* MandatoryInlinedLocation
MandatoryInlinedLocation_N(n) == SILLocation_NK(n, MandatoryInlinedKind)
MandatoryInlinedLocation_S(s) ==
  [SILLocation_K(MandatoryInlinedKind) EXCEPT !.SILFileSourceLoc = s]
MandatoryInlinedLocation_default == SILLocation_K(MandatoryInlinedKind)
MandatoryInlinedLocation_isKind(L) == getKind(L) = MandatoryInlinedKind
\* the private MandatoryInlinedLocation(Expr*/Stmt*/Pattern*/Decl*, unsigned F)
MandatoryInlinedLocation_NF(n, F) == SILLocation_NKF(n, MandatoryInlinedKind, F)
\* the private MandatoryInlinedLocation(SourceLoc L, unsigned F)
MandatoryInlinedLocation_SF(s, F) ==
  [SILLocation_KF(MandatoryInlinedKind, F) EXCEPT !.SILFileSourceLoc = s]

\* CleanupLocation
CleanupLocation_N(n) == SILLocation_NK(n, CleanupKind)
CleanupLocation_default == SILLocation_K(CleanupKind)
\* CleanupLocation::isKind testing the kind of the neighbouring view
CleanupLocation_isKind_inlined(L) == getKind(L) = InlinedKind
CleanupLocation_isKind(L) == getKind(L) = CleanupKind
\* the private CleanupLocation(Expr*/Stmt*/Pattern*/Decl*, unsigned F)
CleanupLocation_NF(n, F) == SILLocation_NKF(n, CleanupKind, F)
\* getModuleCleanupLocation marking the tag auto-generated instead
getModuleCleanupLocation_autoGenerated == markAutoGenerated(CleanupLocation_default)
getModuleCleanupLocation == markAsInTopLevel(CleanupLocation_default)

\* ArtificialUnreachableLocation
ArtificialUnreachableLocation_new == SILLocation_K(ArtificialUnreachableKind)
ArtificialUnreachableLocation_isKind(L) == getKind(L) = ArtificialUnreachableKind

\* SILFileLocation
SILFileLocation_S(s) == [SILLocation_K(SILFileKind) EXCEPT !.SILFileSourceLoc = s]
SILFileLocation_default == SILLocation_K(SILFileKind)
SILFileLocation_isKind(L) == getKind(L) = SILFileKind

\* T::isKind(*this)
isKind(V, L) ==
  CASE V = "RegularLocation" -> RegularLocation_isKind(L)
    [] V = "ReturnLocation" -> ReturnLocation_isKind(L)
    [] V = "ImplicitReturnLocation" -> ImplicitReturnLocation_isKind(L)
    [] V = "InlinedLocation" -> InlinedLocation_isKind(L)
    [] V = "MandatoryInlinedLocation" -> MandatoryInlinedLocation_isKind(L)
    [] V = "CleanupLocation" -> CleanupLocation_isKind(L)
    [] V = "ArtificialUnreachableLocation" -> ArtificialUnreachableLocation_isKind(L)
    [] V = "SILFileLocation" -> SILFileLocation_isKind(L)

\* T t: the view's default constructor
ViewDefault(V) ==
  CASE V = "RegularLocation" -> RegularLocation_default
    [] V = "ReturnLocation" -> ReturnLocation_default
    [] V = "ImplicitReturnLocation" -> ImplicitReturnLocation_default
    [] V = "InlinedLocation" -> InlinedLocation_default
    [] V = "MandatoryInlinedLocation" -> MandatoryInlinedLocation_default
    [] V = "CleanupLocation" -> CleanupLocation_default
    [] V = "ArtificialUnreachableLocation" -> ArtificialUnreachableLocation_new
    [] V = "SILFileLocation" -> SILFileLocation_default

\* SILLocation& tr = t; tr = *this;  (the implicit copy assignment)
Assign(t, L) ==
  [t EXCEPT !.ASTNode = L.ASTNode,
            !.SILFileSourceLoc = L.SILFileSourceLoc,
            !.KindData = L.KindData]

\* is<T>()
is(V, L) == isKind(V, L)

\* castTo<T>(): assert(T::isKind(*this))
castTo(V, L) ==
  IF ~isKind(V, L) THEN [fatal |-> TRUE, val |-> L]
  ELSE [fatal |-> FALSE, val |-> Assign(ViewDefault(V), L)]

\* getAs<T>(): Optional<T>, the empty set for Optional<T>()
getAs(V, L) ==
  IF ~isKind(V, L) THEN {}
  ELSE {Assign(ViewDefault(V), L)}


(***************************************************************************)
(* The three factories declared in the header and defined elsewhere.  They *)
(* derive a tag of their view from an arbitrary tag through the view's     *)
(* private flag-taking constructors, keeping the flags: the node when the  *)
(* source has one, else (Inlined, MandatoryInlined) the raw position, else *)
(* no payload.                                                             *)
(***************************************************************************)
getInlinedLocation(L) ==
  IF hasASTLocation(L)
  THEN InlinedLocation_NF(L.ASTNode.ptr, getSpecialFlags(L))
  ELSE InlinedLocation_SF(L.SILFileSourceLoc, getSpecialFlags(L))

getMandatoryInlinedLocation(L) ==
  IF hasASTLocation(L)
  THEN MandatoryInlinedLocation_NF(L.ASTNode.ptr, getSpecialFlags(L))
  ELSE MandatoryInlinedLocation_SF(L.SILFileSourceLoc, getSpecialFlags(L))

getCleanupLocation(L) ==
  IF hasASTLocation(L)
  THEN CleanupLocation_NF(L.ASTNode.ptr, getSpecialFlags(L))
  ELSE CleanupLocation_default

(***************************************************************************)
(* Spec: one tag `loc` held by a producer/consumer.  op, arg, param and    *)
(* ret record the last call: its name, the tag it was applied to, its      *)
(* template argument and what it returned.  A fatal failure sets aborted   *)
(* and the run ends.                                                       *)
(***************************************************************************)
NoCmp == [valid |-> FALSE, aa |-> FALSE, ab |-> FALSE, ba |-> FALSE,
          bc |-> FALSE, ac |-> FALSE]

Init ==
  /\ loc = ArtificialUnreachableLocation_new
  /\ op = "ArtificialUnreachableLocation"
  /\ arg = ArtificialUnreachableLocation_new
  /\ param = ""
  /\ ret = 0
  /\ aborted = FALSE
  /\ a = ArtificialUnreachableLocation_new
  /\ b = ArtificialUnreachableLocation_new
  /\ c = ArtificialUnreachableLocation_new
  /\ cmp = NoCmp
  /\ nops = 0

\* a constructor or factory call: the new tag replaces loc
Construct(t, o) ==
  /\ ~aborted
  /\ loc' = t
  /\ op' = o
  /\ arg' = t
  /\ param' = ""
  /\ ret' = 0
  /\ UNCHANGED <<aborted, a, b, c, cmp, nops>>

\* a call on loc that returns r and leaves the tag newloc
Call(newloc, o, p, r) ==
  /\ ~aborted
  /\ loc' = newloc
  /\ op' = o
  /\ arg' = loc
  /\ param' = p
  /\ ret' = r
  /\ UNCHANGED <<aborted, a, b, c, cmp, nops>>

\* a call on loc that hits a failed assertion
Abort(o, p) ==
  /\ ~aborted
  /\ aborted' = TRUE
  /\ op' = o
  /\ arg' = loc
  /\ param' = p
  /\ ret' = 0
  /\ UNCHANGED <<loc, a, b, c, cmp, nops>>

NewSILLocation == \E n \in Nodes : Construct(SILLocation_N(n), "SILLocation")
NewRegularLocation == \E n \in Nodes : Construct(RegularLocation_N(n), "RegularLocation")
NewReturnLocation ==
  \E n \in ReturnLocation_Args : Construct(ReturnLocation_N(n), "ReturnLocation")
NewImplicitReturnLocation ==
  \E n \in ImplicitReturnLocation_Args :
     Construct(ImplicitReturnLocation_N(n), "ImplicitReturnLocation")
NewInlinedLocation == \E n \in Nodes : Construct(InlinedLocation_N(n), "InlinedLocation")
NewInlinedLocationLoc ==
  \E s \in SourceLocs : Construct(InlinedLocation_S(s), "InlinedLocation(SourceLoc)")
NewMandatoryInlinedLocation ==
  \E n \in Nodes : Construct(MandatoryInlinedLocation_N(n), "MandatoryInlinedLocation")
NewMandatoryInlinedLocationLoc ==
  \E s \in SourceLocs :
     Construct(MandatoryInlinedLocation_S(s), "MandatoryInlinedLocation(SourceLoc)")
NewCleanupLocation == \E n \in Nodes : Construct(CleanupLocation_N(n), "CleanupLocation")
NewArtificialUnreachableLocation ==
  Construct(ArtificialUnreachableLocation_new, "ArtificialUnreachableLocation")
NewSILFileLocation == \E s \in SourceLocs : Construct(SILFileLocation_S(s), "SILFileLocation")
GetModuleLocation == Construct(getModuleLocation, "getModuleLocation")
GetAutoGeneratedLocation == Construct(getAutoGeneratedLocation, "getAutoGeneratedLocation")
GetModuleCleanupLocation == Construct(getModuleCleanupLocation, "getModuleCleanupLocation")

MarkAutoGenerated == Call(markAutoGenerated(loc), "markAutoGenerated", "", 0)
PointToStart == Call(pointToStart(loc), "pointToStart", "", 0)
PointToEnd == Call(pointToEnd(loc), "pointToEnd", "", 0)
MarkAsInTopLevel == Call(markAsInTopLevel(loc), "markAsInTopLevel", "", 0)
MarkAsPrologue == Call(markAsPrologue(loc), "markAsPrologue", "", 0)

GetImplicitReturnLoc ==
  LET r == getImplicitReturnLoc(loc)
  IN IF r.fatal THEN Abort("getImplicitReturnLoc", "")
     ELSE Call(r.val, "getImplicitReturnLoc", "", 0)

Is == \E V \in Views : Call(loc, "is", V, is(V, loc))

GetAs == \E V \in Views : Call(loc, "getAs", V, getAs(V, loc))

CastTo ==
  \E V \in Views :
     LET r == castTo(V, loc)
     IN IF r.fatal THEN Abort("castTo", V)
        ELSE Call(r.val, "castTo", V, 0)

IsASTNode ==
  \E T \in NodeTypes :
     LET r == isASTNode(T, loc)
     IN IF r.fatal THEN Abort("isASTNode", T)
        ELSE Call(loc, "isASTNode", T, r.val)

GetAsASTNode == \E T \in NodeTypes : Call(loc, "getAsASTNode", T, getAsASTNode(T, loc))

GetInlinedLocation == Call(getInlinedLocation(loc), "getInlinedLocation", "", 0)
GetMandatoryInlinedLocation ==
  Call(getMandatoryInlinedLocation(loc), "getMandatoryInlinedLocation", "", 0)
GetCleanupLocation == Call(getCleanupLocation(loc), "getCleanupLocation", "", 0)

Next ==
  \/ NewSILLocation
  \/ NewRegularLocation
  \/ NewReturnLocation
  \/ NewImplicitReturnLocation
  \/ NewInlinedLocation
  \/ NewInlinedLocationLoc
  \/ NewMandatoryInlinedLocation
  \/ NewMandatoryInlinedLocationLoc
  \/ NewCleanupLocation
  \/ NewArtificialUnreachableLocation
  \/ NewSILFileLocation
  \/ GetModuleLocation
  \/ GetAutoGeneratedLocation
  \/ GetModuleCleanupLocation
  \/ MarkAutoGenerated
  \/ PointToStart
  \/ PointToEnd
  \/ MarkAsInTopLevel
  \/ MarkAsPrologue
  \/ GetImplicitReturnLoc
  \/ GetInlinedLocation
  \/ GetMandatoryInlinedLocation
  \/ GetCleanupLocation
  \/ Is
  \/ GetAs
  \/ CastTo
  \/ IsASTNode
  \/ GetAsASTNode

Spec == Init /\ [][Next]_vars


(***************************************************************************)
(* SpecEq: three tag variables a, b, c of a consumer that builds tags into *)
(* a, copies a to b and b to c, and compares them with operator==.  nops   *)
(* counts the calls made so far; cmp holds the last comparison's results.  *)
(***************************************************************************)
\* every tag a public constructor or factory returns
PublicTags ==
  {SILLocation_N(n) : n \in Nodes}
  \cup {RegularLocation_N(n) : n \in Nodes}
  \cup {ReturnLocation_N(n) : n \in ReturnLocation_Args}
  \cup {ImplicitReturnLocation_N(n) : n \in ImplicitReturnLocation_Args}
  \cup {InlinedLocation_N(n) : n \in Nodes}
  \cup {InlinedLocation_S(s) : s \in SourceLocs}
  \cup {MandatoryInlinedLocation_N(n) : n \in Nodes}
  \cup {MandatoryInlinedLocation_S(s) : s \in SourceLocs}
  \cup {CleanupLocation_N(n) : n \in Nodes}
  \cup {SILFileLocation_S(s) : s \in SourceLocs}
  \cup {ArtificialUnreachableLocation_new, getModuleLocation,
        getAutoGeneratedLocation, getModuleCleanupLocation}

InitEq ==
  /\ loc = ArtificialUnreachableLocation_new
  /\ op = "ArtificialUnreachableLocation"
  /\ arg = ArtificialUnreachableLocation_new
  /\ param = ""
  /\ ret = 0
  /\ aborted = FALSE
  /\ a = ArtificialUnreachableLocation_new
  /\ b = ArtificialUnreachableLocation_new
  /\ c = ArtificialUnreachableLocation_new
  /\ cmp = NoCmp
  /\ nops = 0

\* a call that leaves newa in a
EqStep(newa) ==
  /\ ~aborted
  /\ nops < MaxOps
  /\ a' = newa
  /\ nops' = nops + 1
  /\ cmp' = NoCmp
  /\ UNCHANGED <<b, c, loc, op, arg, param, ret, aborted>>

EqNew == \E t \in PublicTags : EqStep(t)
EqMarkAutoGenerated == EqStep(markAutoGenerated(a))
EqPointToStart == EqStep(pointToStart(a))
EqPointToEnd == EqStep(pointToEnd(a))
EqMarkAsInTopLevel == EqStep(markAsInTopLevel(a))
EqMarkAsPrologue == EqStep(markAsPrologue(a))

EqGetImplicitReturnLoc ==
  LET r == getImplicitReturnLoc(a)
  IN IF r.fatal
     THEN /\ ~aborted
          /\ nops < MaxOps
          /\ aborted' = TRUE
          /\ nops' = nops + 1
          /\ cmp' = NoCmp
          /\ UNCHANGED <<a, b, c, loc, op, arg, param, ret>>
     ELSE EqStep(r.val)

\* b = a;
EqCopyAB ==
  /\ ~aborted
  /\ nops < MaxOps
  /\ b' = a
  /\ nops' = nops + 1
  /\ cmp' = NoCmp
  /\ UNCHANGED <<a, c, loc, op, arg, param, ret, aborted>>

\* c = b;
EqCopyBC ==
  /\ ~aborted
  /\ nops < MaxOps
  /\ c' = b
  /\ nops' = nops + 1
  /\ cmp' = NoCmp
  /\ UNCHANGED <<a, b, loc, op, arg, param, ret, aborted>>

\* a == a, a == b, b == a, b == c, a == c
EqCompare ==
  /\ ~aborted
  /\ ~cmp.valid
  /\ cmp' = [valid |-> TRUE, aa |-> Equals(a, a), ab |-> Equals(a, b),
             ba |-> Equals(b, a), bc |-> Equals(b, c), ac |-> Equals(a, c)]
  /\ UNCHANGED <<a, b, c, nops, loc, op, arg, param, ret, aborted>>

NextEq ==
  \/ EqNew
  \/ EqMarkAutoGenerated
  \/ EqPointToStart
  \/ EqPointToEnd
  \/ EqMarkAsInTopLevel
  \/ EqMarkAsPrologue
  \/ EqGetImplicitReturnLoc
  \/ EqCopyAB
  \/ EqCopyBC
  \/ EqCompare

SpecEq == InitEq /\ [][NextEq]_vars


(***************************************************************************)
(* Properties                                                              *)
(***************************************************************************)
Setters ==
  {"markAutoGenerated", "pointToStart", "pointToEnd", "markAsInTopLevel", "markAsPrologue"}

\* the five flag getters of a tag, in declaration order
FlagsOf(L) ==
  <<isAutoGenerated(L), alwaysPointsToStart(L), alwaysPointsToEnd(L),
    isInTopLevel(L), isInPrologue(L)>>

\* the flag a setter is documented to set, as an index into FlagsOf
FlagIndex(o) ==
  CASE o = "markAutoGenerated" -> 1
    [] o = "pointToStart" -> 2
    [] o = "pointToEnd" -> 3
    [] o = "markAsInTopLevel" -> 4
    [] o = "markAsPrologue" -> 5

\* the last call was getImplicitReturnLoc and it returned
ImplicitReturnLocReturned == op = "getImplicitReturnLoc" /\ ~aborted

\* C1: whatever kind the accepted argument had, the tag returned by
\* getImplicitReturnLoc has kind ImplicitReturn.
C1_ReturnsImplicitReturnKind ==
  ImplicitReturnLocReturned => getKind(loc) = ImplicitReturnKind

\* C2: getImplicitReturnLoc leaves the five flags, the node reference and
\* the raw textual position of its argument unchanged in the result.
C2_ImplicitReturnLocFrame ==
  ImplicitReturnLocReturned =>
    /\ FlagsOf(loc) = FlagsOf(arg)
    /\ loc.ASTNode = arg.ASTNode
    /\ loc.SILFileSourceLoc = arg.SILFileSourceLoc

C2_Witness ==
  /\ ImplicitReturnLocReturned
  /\ isAutoGenerated(arg)
  /\ isInPrologue(arg)
  /\ hasASTLocation(arg)
  /\ getKind(arg) = RegularKind
  /\ getKind(loc) = ImplicitReturnKind

\* the argument forms getImplicitReturnLoc documents as allowed, read off
\* the referenced node's class
AllowedForImplicitReturn(L) ==
  \/ /\ L.ASTNode.ptr # 0
     /\ Supers(NodeClass[L.ASTNode.ptr])
          \cap {"Expr", "ValueDecl", "PatternBindingDecl"} # {}
  \/ /\ L.ASTNode.ptr = 0
     /\ L.SILFileSourceLoc = 0
     /\ isInTopLevel(L)

\* C3: getImplicitReturnLoc fails fatally exactly when its argument is not
\* of an allowed form; in particular for a statement, a pattern, a null tag
\* without InTopLevel and an in-top-level tag with a valid raw position.
C3_ImplicitReturnLocPrecondition ==
  op = "getImplicitReturnLoc" =>
    /\ aborted <=> ~AllowedForImplicitReturn(arg)
    /\ arg.ASTNode.tag \in {"Stmt", "Pattern"} /\ arg.ASTNode.ptr # 0 => aborted
    /\ isNull(arg) /\ ~isInTopLevel(arg) => aborted
    /\ arg.ASTNode.ptr = 0 /\ arg.SILFileSourceLoc # 0 /\ isInTopLevel(arg) => aborted

C3_Witness ==
  /\ op = "getImplicitReturnLoc"
  /\ aborted
  /\ arg.ASTNode.ptr = 0
  /\ arg.SILFileSourceLoc # 0
  /\ isInTopLevel(arg)

\* C4: the kind of every reachable tag is one of the nine enumerated kinds.
C4_KindInEnum == getKind(loc) \in LocationKind

\* C5: every ArtificialUnreachableLocation instance (constructed, or got by
\* getAs/castTo) is null and of kind ArtificialUnreachable, and a tag of any
\* other kind is rejected by is<> and castTo<> of that view.
C5_ArtificialUnreachableIsNull ==
  /\ op = "ArtificialUnreachableLocation" =>
       isNull(loc) /\ getKind(loc) = ArtificialUnreachableKind
  /\ \A t \in getAs("ArtificialUnreachableLocation", loc) :
       isNull(t) /\ getKind(t) = ArtificialUnreachableKind
  /\ ~castTo("ArtificialUnreachableLocation", loc).fatal =>
       LET t == castTo("ArtificialUnreachableLocation", loc).val
       IN isNull(t) /\ getKind(t) = ArtificialUnreachableKind
  /\ getKind(loc) # ArtificialUnreachableKind =>
       /\ ~is("ArtificialUnreachableLocation", loc)
       /\ castTo("ArtificialUnreachableLocation", loc).fatal

\* C6: for every tag and view V, is<V>() iff the kind is V's kind, getAs<V>()
\* is non-empty iff is<V>(), castTo<V>() fails fatally iff is<V>() is false,
\* and at most one view accepts the tag.
C6_NarrowingByKind ==
  /\ \A V \in Views :
       /\ is(V, loc) <=> getKind(loc) = ViewKind(V)
       /\ getAs(V, loc) # {} <=> is(V, loc)
       /\ castTo(V, loc).fatal <=> ~is(V, loc)
  /\ Cardinality({V \in Views : is(V, loc)}) <= 1
  /\ op = "is" => (ret <=> getKind(arg) = ViewKind(param))
  /\ op = "getAs" => (ret # {} <=> getKind(arg) = ViewKind(param))
  /\ op = "castTo" => (aborted <=> getKind(arg) # ViewKind(param))

C6_Witness ==
  /\ op = "castTo"
  /\ aborted
  /\ param = "CleanupLocation"
  /\ getKind(arg) = InlinedKind
  /\ is("InlinedLocation", arg)

\* C7: a flag setter sets its own flag and leaves the other four flags, the
\* kind, the node reference and the raw position alone; applying it again
\* gives an equal tag, and no flag that was true reads false afterwards.
C7_SetterFrame ==
  op \in Setters =>
    /\ FlagsOf(loc)[FlagIndex(op)]
    /\ \A i \in 1 .. 5 : i # FlagIndex(op) => FlagsOf(loc)[i] = FlagsOf(arg)[i]
    /\ \A i \in 1 .. 5 : FlagsOf(arg)[i] => FlagsOf(loc)[i]
    /\ getKind(loc) = getKind(arg)
    /\ loc.ASTNode = arg.ASTNode
    /\ loc.SILFileSourceLoc = arg.SILFileSourceLoc
    /\ CASE op = "markAutoGenerated" -> Equals(markAutoGenerated(loc), loc)
         [] op = "pointToStart" -> Equals(pointToStart(loc), loc)
         [] op = "pointToEnd" -> Equals(pointToEnd(loc), loc)
         [] op = "markAsInTopLevel" -> Equals(markAsInTopLevel(loc), loc)
         [] op = "markAsPrologue" -> Equals(markAsPrologue(loc), loc)

C7_Witness ==
  /\ op = "pointToStart"
  /\ ~alwaysPointsToStart(arg)
  /\ alwaysPointsToStart(loc)
  /\ isInPrologue(arg)
  /\ getKind(loc) = CleanupKind
  /\ hasASTLocation(loc)

\* the four observable fields of two tags agree
SameFields(x, y) ==
  /\ getKind(x) = getKind(y)
  /\ FlagsOf(x) = FlagsOf(y)
  /\ x.ASTNode.ptr = y.ASTNode.ptr
  /\ x.SILFileSourceLoc = y.SILFileSourceLoc

\* C8: operator== is reflexive, symmetric and transitive, and holds of two
\* tags exactly when kind, the five flags, the node identity and the raw
\* position agree.
C8_EqualityIsFieldwise ==
  LET ab == Equals(a, b)
      ba == Equals(b, a)
      bc == Equals(b, c)
      cb == Equals(c, b)
      ac == Equals(a, c)
      ca == Equals(c, a)
  IN /\ Equals(a, a) /\ Equals(b, b) /\ Equals(c, c)
     /\ ab = ba /\ bc = cb /\ ac = ca
     /\ ab /\ bc => ac
     /\ ba /\ ac => bc
     /\ ac /\ cb => ab
     /\ ab <=> SameFields(a, b)
     /\ bc <=> SameFields(b, c)
     /\ ac <=> SameFields(a, c)
     /\ cmp.valid =>
          /\ cmp.aa
          /\ cmp.ab = cmp.ba
          /\ cmp.ab /\ cmp.bc => cmp.ac
          /\ cmp.ab = ab /\ cmp.bc = bc /\ cmp.ac = ac

C8_Witness ==
  /\ cmp.valid
  /\ ~cmp.ab
  /\ cmp.aa
  /\ getKind(a) = getKind(b)
  /\ a.ASTNode = b.ASTNode
  /\ hasASTLocation(a)
  /\ a.SILFileSourceLoc = b.SILFileSourceLoc
  /\ FlagsOf(a) # FlagsOf(b)

\* C9: getModuleLocation, getAutoGeneratedLocation and
\* getModuleCleanupLocation return null tags of kind Regular, Regular and
\* Cleanup with exactly the InTopLevel, AutoGenerated and InTopLevel flag.
C9_SynthesizedFactories ==
  /\ op = "getModuleLocation" =>
       /\ getKind(loc) = RegularKind
       /\ isNull(loc)
       /\ FlagsOf(loc) = <<FALSE, FALSE, FALSE, TRUE, FALSE>>
  /\ op = "getAutoGeneratedLocation" =>
       /\ getKind(loc) = RegularKind
       /\ isNull(loc)
       /\ FlagsOf(loc) = <<TRUE, FALSE, FALSE, FALSE, FALSE>>
  /\ op = "getModuleCleanupLocation" =>
       /\ getKind(loc) = CleanupKind
       /\ isNull(loc)
       /\ FlagsOf(loc) = <<FALSE, FALSE, FALSE, TRUE, FALSE>>

C9_Witness ==
  /\ op = "getModuleCleanupLocation"
  /\ isNull(loc)
  /\ isInTopLevel(loc)
  /\ getKind(loc) = CleanupKind

\* C10: isASTNode<T>() and getAsASTNode<T>() never fail, agree with each
\* other, and yield false/null when the tag has no node or the node is of
\* another family than T's.
C10_NodeProbesNeverFail ==
  /\ ~(op = "isASTNode" /\ aborted)
  /\ \A T \in NodeTypes :
       /\ ~isASTNode(T, loc).fatal
       /\ isASTNode(T, loc).val <=> getAsASTNode(T, loc) # 0
       /\ loc.ASTNode.ptr = 0 \/ loc.ASTNode.tag # base_type(T) =>
            ~isASTNode(T, loc).val /\ getAsASTNode(T, loc) = 0

\* C11: no reachable tag has both a node reference and a valid raw textual
\* position; a tag built from a raw position has an empty node reference.
C11_NodeXorRawPosition ==
  /\ ~(hasASTLocation(loc) /\ ~SourceLoc_isInvalid(loc.SILFileSourceLoc))
  /\ ~(hasASTLocation(arg) /\ ~SourceLoc_isInvalid(arg.SILFileSourceLoc))
  /\ op \in {"SILFileLocation", "InlinedLocation(SourceLoc)",
              "MandatoryInlinedLocation(SourceLoc)"} => ~hasASTLocation(loc)
  /\ op = "getAs" =>
       \A t \in ret : ~(hasASTLocation(t) /\ ~SourceLoc_isInvalid(t.SILFileSourceLoc))

C11_Witness ==
  /\ op = "castTo"
  /\ ~aborted
  /\ param = "SILFileLocation"
  /\ ~SourceLoc_isInvalid(loc.SILFileSourceLoc)
  /\ ~hasASTLocation(loc)
  /\ isInPrologue(loc)

====
